---- MODULE Spec2Model ----
(***************************************************************************)
(* FIRE_studio: the line-of-sight projection of GasStudio                  *)
(* (weightAvgAlongLOS, getImageGrid) and of StarStudio                     *)
(* (get_mockHubbleImage) with the result cache that wraps them.            *)
(*                                                                         *)
(* Numbers.  Per-particle values are integers.  A weight is held in units  *)
(* of 1/Unit, so that the synthetic volume weight 4/3*pi*h^3/32 is exact   *)
(* for integer kernel radii h with pi taken as the fraction Pi[1]/Pi[2].   *)
(***************************************************************************)
EXTENDS Integers, Sequences, FiniteSets, TLC

VARIABLES
    gas_snapdict,   \* self.gas_snapdict: field name -> per-particle array
    star_snapdict,  \* self.star_snapdict
    masked,         \* the species s for which self.masked_<s>_snapdict exists
    mask,           \* self.mask: the boolean array that made the masked views
    theta, phi, psi,\* self.theta, self.phi, self.psi, in quarter turns
    cache,          \* the metadata file: <<group, key>> -> stored map
    last,           \* what the last call was given, did and returned
    run,            \* the current run of calls that share one fingerprint
    ncalls,         \* number of calls made so far
    params,         \* the image parameters: attributes set by set_ImageParams
                    \* and by render (cmap, cbar_min, cbar_max)
    shown           \* what the last set_ImageParams or render call was given
                    \* and did

vars == <<gas_snapdict, star_snapdict, masked, mask, theta, phi, psi,
          cache, last, run, ncalls, params, shown>>

----------------------------------------------------------------------------
(* Bounds of the model *)

\* particles per species table
NPart == 3

\* projection calls per behaviour
MaxCalls == 2

----------------------------------------------------------------------------
(* Numbers *)

\* np.pi as a fraction <<numerator, denominator>>
Pi == <<22, 7>>

\* weights are held in units of 1/Unit
Unit == 84

Abs(x) == IF x < 0 THEN -x ELSE x

RECURSIVE Pow2Floor(_)
\* the largest power of two that is <= x, for x >= 1
Pow2Floor(x) == IF x < 2 THEN 1 ELSE 2 * Pow2Floor(x \div 2)

\* ndarray.astype(np.float32) of one value: 24 significant bits, ties to even
Float32(x) ==
    LET a == Abs(x)
        q == Pow2Floor(a) \div 8388608            \* 2^23
    IN  IF a < 16777216 THEN x                     \* 2^24: exact
        ELSE LET m   == a \div q
                 rem == a % q
                 up  == (2 * rem > q) \/ (2 * rem = q /\ m % 2 = 1)
                 r   == (IF up THEN m + 1 ELSE m) * q
             IN  IF x < 0 THEN -r ELSE r

\* ndarray.astype(np.float32): a new array, the source is left alone
astype_float32(arr) == [k \in 1..Len(arr) |-> Float32(arr[k])]

\* the same for an array of position triplets
astype_float32_pos(arr) ==
    [k \in 1..Len(arr) |-> <<Float32(arr[k][1]), Float32(arr[k][2]), Float32(arr[k][3])>>]

RECURSIVE SumSeq(_)
SumSeq(s) == IF s = <<>> THEN 0 ELSE Head(s) + SumSeq(Tail(s))

\* np.sum(box_mask): the number of True entries
CountTrue(m) == Cardinality({k \in 1..Len(m) : m[k]})

RECURSIVE TrueIndices(_, _)
\* the indices k >= from with m[k], in increasing order
TrueIndices(m, from) ==
    IF from > Len(m) THEN <<>>
    ELSE IF m[from] THEN <<from>> \o TrueIndices(m, from + 1)
    ELSE TrueIndices(m, from + 1)

\* arr[m] for a boolean array m of the same length as arr
BoolIndex(arr, m) ==
    LET idx == TrueIndices(m, 1) IN [k \in 1..Len(idx) |-> arr[idx[k]]]

----------------------------------------------------------------------------
(* Frame configuration: the attributes of the studio the projection reads *)

\* self.Xmin .. self.Zmax, self.npix_x, self.npix_y, self.frame_center
Frame == [Xmin |-> -3, Xmax |-> 3, Ymin |-> -5, Ymax |-> 5, Zmin |-> -5, Zmax |-> 5,
          npix_x |-> 2, npix_y |-> 2, frame_center |-> <<0, 0, 0>>]

\* angles, in quarter turns
Angles == {0, 1}

\* self.this_setup_id: names the frame configuration a map was made under
this_setup_id == <<"setup", theta, phi, psi>>

\* Studio.cullFrameIndices(Coordinates): the mask of the positions it is
\* given that lie inside the box
InBox(p) ==
    /\ Frame.Xmin <= p[1] /\ p[1] <= Frame.Xmax
    /\ Frame.Ymin <= p[2] /\ p[2] <= Frame.Ymax
    /\ Frame.Zmin <= p[3] /\ p[3] <= Frame.Zmax

cullFrameIndices(Coordinates) == [k \in 1..Len(Coordinates) |-> InBox(Coordinates[k])]

\* one quarter turn about the x, y and z axis
RotX(p) == <<p[1], -p[3], p[2]>>
RotY(p) == <<p[3], p[2], -p[1]>>
RotZ(p) == <<-p[2], p[1], p[3]>>

RECURSIVE Turn(_, _, _)
\* n quarter turns about one axis
Turn(axis, n, p) ==
    IF n = 0 THEN p
    ELSE Turn(axis, n - 1,
              CASE axis = "x" -> RotX(p) [] axis = "y" -> RotY(p) [] OTHER -> RotZ(p))

\* one position rotated about the frame center
RotatePoint(th, ph, ps, p) ==
    LET c == Frame.frame_center
        d == <<p[1] - c[1], p[2] - c[2], p[3] - c[3]>>
        r == Turn("z", ps, Turn("y", ph, Turn("x", th, d)))
    IN  <<r[1] + c[1], r[2] + c[2], r[3] + c[3]>>

\* Studio.rotateEuler(theta, phi, psi, pos): the identity for zero angles
rotateEuler(th, ph, ps, pos) ==
    [k \in 1..Len(pos) |-> RotatePoint(th, ph, ps, pos[k])]

----------------------------------------------------------------------------
(* Particle tables.  The snapshot loader owns them; the studio reads them. *)

\* positions the tables are filled from: inside the box, outside it, and
\* some that a quarter turn moves across its faces; none lies on a face,
\* before or after a rotation
Positions == << <<0, 0, 0>>, <<4, 0, 0>>, <<0, 4, 0>>, <<2, -2, 2>>, <<0, 0, 6>> >>

PosOf(n) == Positions[((n - 1) % Len(Positions)) + 1]

GasCoordinates == [i \in 1..NPart |-> PosOf(i)]
StarCoordinates == [i \in 1..NPart |-> PosOf(i + 1)]

EmptyDict == [f \in {} |-> <<>>]

\* a gas table: SmoothingLength may be absent, and the user may have set a
\* field named 'Volume' (gas_snapdict['Volume'] = volumes)
GasTable(coords, hasHsml, hasVolume) ==
    ("Coordinates" :> coords)
    @@ ("Masses" :> [i \in 1..Len(coords) |-> Unit * i])
    @@ ("Temperature" :> [i \in 1..Len(coords) |-> 10 + i])
    @@ ("Metallicity" :> [i \in 1..Len(coords) |-> <<i, 0>>])
    @@ (IF hasHsml THEN "SmoothingLength" :> [i \in 1..Len(coords) |-> 1 + (i % 2)]
        ELSE EmptyDict)
    @@ (IF hasVolume THEN "Volume" :> [i \in 1..Len(coords) |-> Unit * 7]
        ELSE EmptyDict)

\* a star table: stars carry ages and no temperature
StarTable(coords, hasHsml) ==
    ("Coordinates" :> coords)
    @@ ("Masses" :> [i \in 1..Len(coords) |-> Unit * (10 + i)])
    @@ ("AgeGyr" :> [i \in 1..Len(coords) |-> i])
    @@ ("Metallicity" :> [i \in 1..Len(coords) |-> <<i + 1, 0>>])
    @@ (IF hasHsml THEN "SmoothingLength" :> [i \in 1..Len(coords) |-> 1]
        ELSE EmptyDict)

\* the mask of a masked view: it drops the first particle
MaskArray == [i \in 1..NPart |-> i # 1]

\* the masked view of a table: every field filtered by self.mask
MaskedView(snapdict) == [f \in DOMAIN snapdict |-> BoolIndex(snapdict[f], mask)]

\* getattr(self, '<s>_snapdict')
UnmaskedSnapdict(snapdict_name) ==
    IF snapdict_name = "gas" THEN gas_snapdict ELSE star_snapdict

\* Studio.get_HSML(snapdict_name): the neighbour-density estimate of the
\* kernel radii, one per particle of the unmasked table
get_HSML(snapdict_name) ==
    [i \in 1..Len(UnmaskedSnapdict(snapdict_name)["Coordinates"]) |->
        IF snapdict_name = "gas" THEN 2 + (i % 2) ELSE 2]

----------------------------------------------------------------------------
(* Values of arguments and results *)

\* an optional array argument: None, or an array
None == [given |-> FALSE, data |-> <<>>]
Array(d) == [given |-> TRUE, data |-> d]

\* what a projection call hands to the native routine
NoNative == [called |-> FALSE, n_smooth |-> 0, pos |-> <<>>, weights |-> <<>>,
             quantities |-> <<>>, hsml |-> <<>>]

\* what the wrapped computation resolved before culling
NoResolved == [done |-> FALSE, Hsml |-> <<>>, weights |-> <<>>, quantities |-> <<>>]

\* the outcome of a computation that raised `kind`
Raised(kind, errarg, log, resolved, native) ==
    [outcome |-> kind, errarg |-> errarg, log |-> log, resolved |-> resolved,
     native |-> native, ret |-> <<>>]

Returned(ret, log, resolved, native) ==
    [outcome |-> "ok", errarg |-> "", log |-> log, resolved |-> resolved,
     native |-> native, ret |-> ret]

----------------------------------------------------------------------------
(* The native projection kernel and its Python binding *)

Min(x, y) == IF x <= y THEN x ELSE y

Pixels == (0..(Frame.npix_x - 1)) \X (0..(Frame.npix_y - 1))

\* the pixel a position inside the frame falls in
PixelOf(p) ==
    << Min(Frame.npix_x - 1, ((p[1] - Frame.Xmin) * Frame.npix_x) \div (Frame.Xmax - Frame.Xmin)),
       Min(Frame.npix_y - 1, ((p[2] - Frame.Ymin) * Frame.npix_y) \div (Frame.Ymax - Frame.Ymin)) >>

\* sum over the first n particles that fall in pixel px of val[k]
Deposit(n, pos, val, px) ==
    SumSeq([k \in 1..n |-> IF InBox(pos[k]) /\ PixelOf(pos[k]) = px THEN val[k] ELSE 0])

\* Hmax = 0.5*(Xmax-Xmin), the largest kernel radius the routine uses
Hmax == (Frame.Xmax - Frame.Xmin) \div 2

\* twice the centre of a pixel (the centres lie on half-integers)
PixelCentre2(px) ==
    << 2 * Frame.Xmin + (2 * px[1] + 1) * ((Frame.Xmax - Frame.Xmin) \div Frame.npix_x),
       2 * Frame.Ymin + (2 * px[2] + 1) * ((Frame.Ymax - Frame.Ymin) \div Frame.npix_y) >>

\* k(r_ij, h_i): positive inside the kernel radius, falling with the distance
\* of the pixel centre from the particle, zero from the radius on
Kernel(p, h, px) ==
    LET c  == PixelCentre2(px)
        r2 == (2 * p[1] - c[1]) * (2 * p[1] - c[1]) + (2 * p[2] - c[2]) * (2 * p[2] - c[2])
        h2 == 4 * Min(h, Hmax) * Min(h, Hmax)
    IN  IF r2 < h2 THEN h2 - r2 ELSE 0

\* the contribution of a particle to a pixel before renormalization: a
\* particle whose kernel reaches no pixel centre goes to the pixel it is in
Contribution(p, h, px) ==
    IF ~InBox(p) THEN 0
    ELSE IF \A q \in Pixels : Kernel(p, h, q) = 0
    THEN (IF PixelOf(p) = px THEN 1 ELSE 0)
    ELSE Kernel(p, h, px)

RECURSIVE SumPixels(_, _)
\* the sum of a map over a set of pixels
SumPixels(map, S) ==
    IF S = {} THEN 0
    ELSE LET px == CHOOSE x \in S : TRUE IN map[px] + SumPixels(map, S \ {px})

\* mutant: the kernel is not renormalized
renorm_One(p, h) == 1

\* renorm_i = sum_j ( k(r_ij,h_i)), j over the pixels particle i contributes to
renorm(p, h) == SumPixels([px \in Pixels |-> Contribution(p, h, px)], Pixels)

\* k / renorm * val, rounded down; computed without leaving the 32-bit range
Share(k, r, val) == k * (val \div r) + (k * (val % r)) \div r

\* sum_i( k(r_ij,h_i)/renorm_i * val_i ) over the first n particles; every
\* term is rounded to the grid the values are held on
KernelDeposit(n, pos, hsml, val, px) ==
    SumSeq([k \in 1..n |->
        IF Contribution(pos[k], hsml[k], px) = 0 THEN 0
        ELSE Share(Contribution(pos[k], hsml[k], px), renorm(pos[k], hsml[k]), val[k])])

\* c_obj.findHsmlAndProject: fills the weight map and the weight-weighted
\* quantity map from the first n_smooth entries of the four arrays.  A
\* particle outside the frame deposits nothing, a pixel without weight gets 0.
findHsmlAndProject(n_smooth, pos, hsml, mass, quantity) ==
    LET wq == [k \in 1..n_smooth |-> mass[k] * quantity[k]]
        W  == [px \in Pixels |-> KernelDeposit(n_smooth, pos, hsml, mass, px)]
        Q  == [px \in Pixels |->
                  IF W[px] = 0 THEN 0
                  ELSE KernelDeposit(n_smooth, pos, hsml, wq, px) \div W[px]]
    IN  <<W, Q>>

\* getImageGrid(BoxSize, Xmin, ..., npix_y, pos, mass, quantity, hsml);
\* isfile is os.path.isfile(c_obj_path).  The raise of the missing-artifact
\* branch names c_obj_file, which is not defined: it raises NameError.
getImageGrid(pos, mass, quantity, hsml, isfile) ==
    LET n_smooth == Len(pos)
        given == [called |-> TRUE, n_smooth |-> n_smooth,
                  pos |-> astype_float32_pos(pos), weights |-> astype_float32(mass),
                  quantities |-> astype_float32(quantity), hsml |-> astype_float32(hsml)]
    IN  IF ~isfile
        THEN [outcome |-> "NameError", errarg |-> "c_obj_file", log |-> <<"getImageGrid">>,
              native |-> NoNative, maps |-> <<>>]
        ELSE [outcome |-> "ok", errarg |-> "",
              log |-> <<"getImageGrid", "findHsmlAndProject">>,
              native |-> given,
              maps |-> findHsmlAndProject(n_smooth, given.pos, given.hsml,
                                          given.weights, given.quantities)]

----------------------------------------------------------------------------
(* GasStudio.weightAvgAlongLOS: the wrapped computation *)

\* the snapdict a projection reads: the masked view if the studio has one
SelectSnapdict(snapdict_name) ==
    LET is_masked == snapdict_name \in masked
    IN  [is_masked |-> is_masked,
         full_snapdict_name |-> <<IF is_masked THEN "masked_" ELSE "", snapdict_name, "_snapdict">>,
         snapdict |-> IF is_masked THEN MaskedView(UnmaskedSnapdict(snapdict_name))
                      ELSE UnmaskedSnapdict(snapdict_name)]

\* the kernel radii: from the table, or from the resolver and then filtered
\* by self.mask when the masked view is in use
ResolveHsml(snapdict_name, sel) ==
    IF "SmoothingLength" \notin DOMAIN sel.snapdict
    THEN [log |-> <<"get_HSML">>,
          Hsml |-> IF sel.is_masked THEN BoolIndex(get_HSML(snapdict_name), mask)
                   ELSE get_HSML(snapdict_name)]
    ELSE [log |-> <<>>, Hsml |-> sel.snapdict["SmoothingLength"]]

\* 4/3 * np.pi*Hsml**3 / 32, in units of 1/Unit
VolumeWeights(Hsml) ==
    [k \in 1..Len(Hsml) |-> (4 * Pi[1] * Hsml[k] * Hsml[k] * Hsml[k] * Unit) \div (3 * Pi[2] * 32)]

\* mutant: the synthetic names are tried before the table
ResolveWeights_SyntheticFirst(weights, weight_name, snapdict, Hsml) ==
    IF weights.given THEN [outcome |-> "ok", errarg |-> "", data |-> weights.data]
    ELSE IF weight_name = "Volume"
         THEN [outcome |-> "ok", errarg |-> "", data |-> VolumeWeights(Hsml)]
         ELSE IF weight_name = "Ones"
         THEN [outcome |-> "AttributeError", errarg |-> "size", data |-> <<>>]
         ELSE IF weight_name \notin DOMAIN snapdict
         THEN [outcome |-> "KeyError", errarg |-> weight_name, data |-> <<>>]
         ELSE [outcome |-> "ok", errarg |-> "", data |-> snapdict[weight_name]]

\* if weights is None: ... ; np.ones(weights.size) is evaluated with weights
\* None and raises AttributeError
ResolveWeights(weights, weight_name, snapdict, Hsml) ==
    IF weights.given THEN [outcome |-> "ok", errarg |-> "", data |-> weights.data]
    ELSE IF weight_name \notin DOMAIN snapdict
         THEN IF weight_name = "Volume"
              THEN [outcome |-> "ok", errarg |-> "", data |-> VolumeWeights(Hsml)]
              ELSE IF weight_name = "Ones"
              THEN [outcome |-> "AttributeError", errarg |-> "size", data |-> <<>>]
              ELSE [outcome |-> "KeyError", errarg |-> weight_name, data |-> <<>>]
         ELSE [outcome |-> "ok", errarg |-> "", data |-> snapdict[weight_name]]

\* if quantities is None: ...
ResolveQuantities(quantities, quantity_name, snapdict) ==
    IF quantities.given THEN [outcome |-> "ok", errarg |-> "", data |-> quantities.data]
    ELSE IF quantity_name \notin DOMAIN snapdict
         THEN [outcome |-> "KeyError", errarg |-> quantity_name, data |-> <<>>]
         ELSE [outcome |-> "ok", errarg |-> "", data |-> snapdict[quantity_name]]

\* mutant: the wrapped computation returns the weight map alone
NReturned_One(quantity_name) == 1

\* the number of maps the wrapped computation returns
NReturned(quantity_name) == 1 + (IF quantity_name # "Ones" THEN 1 ELSE 0)

\* the C call and the return of the wrapped computation:
\* return tuple(return_list[:1+(quantity_name!='Ones')])
KernelStage(a, log, resolved, g) ==
    IF g.outcome # "ok" THEN Raised(g.outcome, g.errarg, log \o g.log, resolved, NoNative)
    ELSE Returned(SubSeq(g.maps, 1, NReturned(a.quantity_name)),
                  log \o g.log, resolved, g.native)

\* cull the particles outside the frame, cast to float32, rotate.  Indexing
\* an array with a boolean mask of another length raises IndexError.
CullStage(a, isfile, H, weights, quantities, Coordinates, box_mask) ==
    IF \/ Len(weights) # Len(box_mask)
       \/ Len(quantities) # Len(box_mask)
       \/ Len(H.Hsml) # Len(box_mask)
    THEN Raised("IndexError", "box_mask", H.log \o <<"cullFrameIndices">>,
                [done |-> TRUE, Hsml |-> H.Hsml, weights |-> weights,
                 quantities |-> quantities], NoNative)
    ELSE KernelStage(a, H.log \o <<"cullFrameIndices", "astype", "rotateEuler">>,
             [done |-> TRUE, Hsml |-> H.Hsml, weights |-> weights, quantities |-> quantities],
             getImageGrid(
                 rotateEuler(theta, phi, psi,
                             astype_float32_pos(BoolIndex(Coordinates, box_mask))),
                 astype_float32(BoolIndex(weights, box_mask)),
                 astype_float32(BoolIndex(quantities, box_mask)),
                 astype_float32(BoolIndex(H.Hsml, box_mask)),
                 isfile))

\* the weight and the quantity array are resolved, the weight first
ResolveStage(a, isfile, snapdict, H, w, q) ==
    IF w.outcome # "ok" THEN Raised(w.outcome, w.errarg, H.log, NoResolved, NoNative)
    ELSE IF q.outcome # "ok" THEN Raised(q.outcome, q.errarg, H.log, NoResolved, NoNative)
    ELSE CullStage(a, isfile, H, w.data, q.data, snapdict["Coordinates"],
                   cullFrameIndices(snapdict["Coordinates"]))

\* the kernel radii are unpacked before the weights, which may use them
HsmlStage(a, isfile, snapdict, H) ==
    ResolveStage(a, isfile, snapdict, H,
                 ResolveWeights(a.weights, a.weight_name, snapdict, H.Hsml),
                 ResolveQuantities(a.quantities, a.quantity_name, snapdict))

SnapdictStage(a, isfile, sel) ==
    HsmlStage(a, isfile, sel.snapdict, ResolveHsml(a.snapdict_name, sel))

\* inner_weight_along_los(self, weights, weight_name, quantities, quantity_name, snapdict_name)
inner_weight_along_los(a, isfile) ==
    IF a.snapdict_name # "gas" /\ a.snapdict_name # "star"
    THEN Raised("ValueError", "snapdict", <<>>, NoResolved, NoNative)
    ELSE SnapdictStage(a, isfile, SelectSnapdict(a.snapdict_name))

----------------------------------------------------------------------------
(* The result cache *)

\* str.lower() and str.title() of the names the model uses
Lower == [n \in {"Masses", "Volume", "Ones", "Temperature"} |->
            CASE n = "Masses" -> "masses" [] n = "Volume" -> "volume"
              [] n = "Ones" -> "ones" [] OTHER -> "temperature"]

Title == [n \in {"Masses", "Volume", "Ones", "Temperature"} |-> n]

\* mutant: both keys are declared whatever the quantity name
CacheKeys_NoSlice(weight_name, quantity_name) ==
    << <<Lower[weight_name], "Map">>,
       <<Lower[weight_name], "Weighted", Title[quantity_name], "Map">> >>

\* the keys the decorator of weightAvgAlongLOS declares:
\* ['%sMap', '%sWeighted%sMap'][:1+(quantity_name!='Ones')]
CacheKeys(weight_name, quantity_name) ==
    SubSeq(<< <<Lower[weight_name], "Map">>,
              <<Lower[weight_name], "Weighted", Title[quantity_name], "Map">> >>,
           1, 1 + (IF quantity_name # "Ones" THEN 1 ELSE 0))

\* the keys the decorator of get_mockHubbleImage declares
StarKeys == << <<"starMassesMap">>, <<"attenUMap">>, <<"attenGMap">>, <<"attenRMap">> >>

\* mutant: the decorator is not told to consult the cache
CachePolicy_NoLookup(a) ==
    [use_metadata |-> FALSE, save_meta |-> a.save_meta, assert_cached |-> a.assert_cached]

\* mutant: assert_cached is not handed on to the decorator
CachePolicy_NoAssert(a) ==
    [use_metadata |-> a.use_metadata, save_meta |-> a.save_meta, assert_cached |-> FALSE]

\* the policy flags weightAvgAlongLOS and get_mockHubbleImage hand to the decorator
CachePolicy(a) ==
    [use_metadata |-> a.use_metadata, save_meta |-> a.save_meta,
     assert_cached |-> a.assert_cached]

\* every key of the list is stored under the group
AllStored(group, keys) == \A k \in 1..Len(keys) : <<group, keys[k]>> \in DOMAIN cache

\* the cache after the maps are stored under the keys, pairwise
Put(group, keys, maps) ==
    LET n == Min(Len(keys), Len(maps))
        new == {<<group, keys[k]>> : k \in 1..n}
        val(x) == maps[CHOOSE k \in 1..n : x = <<group, keys[k]>>]
    IN  [x \in DOMAIN cache \union new |-> IF x \in new THEN val(x) ELSE cache[x]]

\* metadata_cache(group, keys, use_metadata, save_meta, assert_cached): on a
\* hit the stored maps are returned and the wrapped function is not called;
\* a miss under assert_cached is an error; otherwise the function is called
\* and, if it returns, its maps are stored when save_meta is set.
metadata_cache(group, keys, policy, computed) ==
    IF policy.use_metadata /\ AllStored(group, keys)
    THEN [r |-> Returned([k \in 1..Len(keys) |-> cache[<<group, keys[k]>>]],
                         <<>>, NoResolved, NoNative),
          hit |-> TRUE, called |-> FALSE, cache |-> cache, stored |-> {}]
    ELSE IF policy.assert_cached
    THEN [r |-> Raised("AssertionError", "assert_cached", <<>>, NoResolved, NoNative),
          hit |-> FALSE, called |-> FALSE, cache |-> cache, stored |-> {}]
    ELSE IF computed.outcome = "ok" /\ policy.save_meta
    THEN [r |-> computed, hit |-> FALSE, called |-> TRUE,
          cache |-> Put(group, keys, computed.ret),
          stored |-> {keys[k] : k \in 1..Min(Len(keys), Len(computed.ret))}]
    ELSE [r |-> computed, hit |-> FALSE, called |-> TRUE, cache |-> cache, stored |-> {}]

----------------------------------------------------------------------------
(* The run of calls that share one fingerprint (history, not program state) *)

NoRun == [fp |-> <<>>, kdone |-> 0, first |-> <<>>, allsave |-> TRUE, n |-> 0]

\* the run after a call with fingerprint fp: a call made without
\* use_metadata, or with another fingerprint, ends the run.  kdone counts
\* the calls of the run in which the projection kernel ran; first is what
\* the first successful call of the run returned.
NextRun(fp, a, c, ret) ==
    IF ~a.use_metadata THEN NoRun
    ELSE \* the run so far, if this call continues it
         LET base == IF run.fp = fp THEN run ELSE NoRun
         IN  [fp |-> fp,
              kdone |-> base.kdone + (IF c.r.native.called THEN 1 ELSE 0),
              first |-> IF base.first = <<>> THEN ret ELSE base.first,
              allsave |-> base.allsave /\ a.save_meta, n |-> base.n + 1]

----------------------------------------------------------------------------
(* What a projection leaves in the particle tables *)

\* mutant: pos is the table's own array (no boolean indexing, no cast)
PosIsCopy_View == FALSE

\* pos = Coordinates[box_mask].astype(np.float32): boolean indexing and astype
\* each make a new array, so rotateEuler is handed a copy
PosIsCopy == TRUE

\* the particles of the unmasked table of a species that a projection of the
\* species hands to rotateEuler
Rotated(snapdict, is_masked) ==
    [k \in 1..Len(snapdict["Coordinates"]) |->
        /\ InBox(snapdict["Coordinates"][k])
        /\ is_masked => mask[k]]

\* the table after rotateEuler has run on the array pos: rotateEuler may
\* write its result into its argument (inplace), which reaches the table
\* only if the argument is the table's array
TableAfter(snapdict, selected, inplace) ==
    IF PosIsCopy \/ ~inplace THEN snapdict
    ELSE [snapdict EXCEPT !["Coordinates"] =
             [k \in 1..Len(@) |->
                 IF selected[k] THEN RotatePoint(theta, phi, psi, @[k]) ELSE @[k]]]

\* the tables after a weightAvgAlongLOS call that logged `log`
GasCallTables(a, log, inplace) ==
    [s \in {"gas", "star"} |->
        IF s = a.snapdict_name /\ \E k \in 1..Len(log) : log[k] = "rotateEuler"
        THEN TableAfter(UnmaskedSnapdict(s), Rotated(UnmaskedSnapdict(s), s \in masked), inplace)
        ELSE UnmaskedSnapdict(s)]

\* the tables after a get_mockHubbleImage call: it rotates both populations
\* and reads no masked view
StarCallTables(called, inplace) ==
    [s \in {"gas", "star"} |->
        IF called
        THEN TableAfter(UnmaskedSnapdict(s), Rotated(UnmaskedSnapdict(s), FALSE), inplace)
        ELSE UnmaskedSnapdict(s)]

----------------------------------------------------------------------------
(* GasStudio.weightAvgAlongLOS *)

\* return the same map twice when quantity_name is 'Ones'
FinalReturn(quantity_name, return_value) ==
    IF quantity_name = "Ones" THEN <<return_value[1], return_value[1]>> ELSE return_value

\* what a call leaves in `last`
CallRecord(op, a, isfile, keys, c, ret) ==
    [op |-> op, args |-> a, isfile |-> isfile, group |-> this_setup_id, keys |-> keys,
     outcome |-> c.r.outcome, errarg |-> c.r.errarg, hit |-> c.hit, called |-> c.called,
     log |-> c.r.log, resolved |-> c.r.resolved, native |-> c.r.native,
     nret |-> Len(c.r.ret), ret |-> ret, stored |-> c.stored]

\* the call, as weightAvgAlongLOS itself and __produceImage make it
weightAvgAlongLOS_call(a, isfile) ==
    /\ ncalls < MaxCalls
    /\ \E c \in {metadata_cache(this_setup_id, CacheKeys(a.weight_name, a.quantity_name),
                                CachePolicy(a), inner_weight_along_los(a, isfile))} :
        \E ret \in {IF c.r.outcome = "ok" THEN FinalReturn(a.quantity_name, c.r.ret)
                    ELSE <<>>} :
           /\ cache' = c.cache
           /\ last' = CallRecord("weightAvgAlongLOS", a, isfile,
                                 CacheKeys(a.weight_name, a.quantity_name), c, ret)
           /\ run' = NextRun(<<this_setup_id, CacheKeys(a.weight_name, a.quantity_name)>>,
                             a, c, ret)
           /\ \E inplace \in BOOLEAN :
                 \E t \in {GasCallTables(a, c.r.log, inplace)} :
                    gas_snapdict' = t["gas"] /\ star_snapdict' = t["star"]
    /\ ncalls' = ncalls + 1
    /\ UNCHANGED <<masked, mask, theta, phi, psi>>

weightAvgAlongLOS(a, isfile) ==
    weightAvgAlongLOS_call(a, isfile) /\ UNCHANGED <<params, shown>>

----------------------------------------------------------------------------
(* StarStudio.get_mockHubbleImage *)

\* Metallicity[:,0]
FirstColumn(arr) == [k \in 1..Len(arr) |-> arr[k][1]]

Column(pos, c) == [k \in 1..Len(pos) |-> pos[k][c]]

\* [np.min(x), np.max(x)] of a non-empty array
MinMax(x) ==
    << CHOOSE v \in {x[k] : k \in 1..Len(x)} : \A k \in 1..Len(x) : v <= x[k],
       CHOOSE v \in {x[k] : k \in 1..Len(x)} : \A k \in 1..Len(x) : v >= x[k] >>

\* raytrace_projection.stellar_raytrace: one mass map and three band maps,
\* read from the first len(x) star entries and the first len(gx) gas entries
stellar_raytrace(BAND_IDS, n) ==
    LET spos == [k \in 1..Len(n.x) |-> <<n.x[k], n.y[k], n.z[k]>>]
        gpos == [k \in 1..Len(n.gx) |-> <<n.gx[k], n.gy[k], n.gz[k]>>]
        dust == [k \in 1..Len(n.gx) |-> n.mgas[k] * n.gas_metals[k]]
        lum(b) == [k \in 1..Len(n.x) |-> n.mstar[k] * (b + n.ages[k] + n.metals[k])]
        band(b) == [px \in Pixels |->
                      LET l == Deposit(Len(n.x), spos, lum(b), px)
                          d == Deposit(Len(n.gx), gpos, dust, px)
                      IN  IF l > d THEN l - d ELSE 0]
    IN  << [px \in Pixels |-> Deposit(Len(n.gx), gpos, n.mgas, px)],
           band(BAND_IDS[1]), band(BAND_IDS[2]), band(BAND_IDS[3]) >>

\* raytrace_ugr_attenuation(x, y, z, mstar, ages, metals, h_star, gx, gy, gz,
\* mgas, gas_metals, h_gas): np.min of an empty array raises ValueError
raytrace_ugr_attenuation(n) ==
    IF Len(n.x) = 0
    THEN [outcome |-> "ValueError", errarg |-> "zero-size array", maps |-> <<>>,
          native |-> NoNative]
    ELSE LET given == [n EXCEPT !.called = TRUE, !.xlim = MinMax(n.x),
                                !.ylim = MinMax(n.y), !.zlim = MinMax(n.z)]
         IN  [outcome |-> "ok", errarg |-> "", native |-> given,
              maps |-> stellar_raytrace(<<9, 10, 11>>, given)]

\* compute_mockHubbleImage(self)
compute_mockHubbleImage ==
    LET star_ind_box == cullFrameIndices(star_snapdict["Coordinates"])
        noStarH == "SmoothingLength" \notin DOMAIN star_snapdict
        Hsml == IF noStarH THEN get_HSML("star") ELSE star_snapdict["SmoothingLength"]
        h_star == astype_float32(BoolIndex(Hsml, star_ind_box))
        star_pos == rotateEuler(theta, phi, psi,
                        astype_float32_pos(BoolIndex(star_snapdict["Coordinates"], star_ind_box)))
        mstar == astype_float32(BoolIndex(star_snapdict["Masses"], star_ind_box))
        ages == astype_float32(BoolIndex(star_snapdict["AgeGyr"], star_ind_box))
        metals == astype_float32(BoolIndex(FirstColumn(star_snapdict["Metallicity"]), star_ind_box))
        gas_ind_box == cullFrameIndices(gas_snapdict["Coordinates"])
        gas_pos == astype_float32_pos(rotateEuler(theta, phi, psi,
                        BoolIndex(gas_snapdict["Coordinates"], gas_ind_box)))
        mgas == astype_float32(BoolIndex(gas_snapdict["Masses"], gas_ind_box))
        gas_metals == astype_float32(BoolIndex(FirstColumn(gas_snapdict["Metallicity"]), gas_ind_box))
        noGasH == "SmoothingLength" \notin DOMAIN gas_snapdict
        h_gas == IF noGasH THEN get_HSML("gas")
                 ELSE astype_float32(BoolIndex(gas_snapdict["SmoothingLength"], gas_ind_box))
        log == <<"cullFrameIndices">> \o (IF noStarH THEN <<"get_HSML">> ELSE <<>>)
               \o <<"astype", "rotateEuler", "cullFrameIndices", "rotateEuler", "astype">>
               \o (IF noGasH THEN <<"get_HSML">> ELSE <<>>)
               \o <<"raytrace_ugr_attenuation">>
        g == raytrace_ugr_attenuation(
                 [called |-> FALSE,
                  x |-> Column(star_pos, 1), y |-> Column(star_pos, 2), z |-> Column(star_pos, 3),
                  mstar |-> mstar, ages |-> ages, metals |-> metals, h_star |-> h_star,
                  gx |-> Column(gas_pos, 1), gy |-> Column(gas_pos, 2), gz |-> Column(gas_pos, 3),
                  mgas |-> mgas, gas_metals |-> gas_metals, h_gas |-> h_gas,
                  xlim |-> <<>>, ylim |-> <<>>, zlim |-> <<>>])
    IN  IF g.outcome # "ok" THEN Raised(g.outcome, g.errarg, log, NoResolved, NoNative)
        ELSE Returned(g.maps, log \o <<"stellar_raytrace">>, NoResolved, g.native)

\* the arguments of a get_mockHubbleImage call, in the shape of those of
\* weightAvgAlongLOS
StarArgs(f) ==
    [weights |-> None, weight_name |-> "", quantities |-> None, quantity_name |-> "",
     snapdict_name |-> "", use_metadata |-> f.use_metadata, save_meta |-> f.save_meta,
     assert_cached |-> f.assert_cached]

get_mockHubbleImage(f) ==
    /\ ncalls < MaxCalls
    /\ \E c \in {metadata_cache(this_setup_id, StarKeys, CachePolicy(f),
                                compute_mockHubbleImage)} :
           /\ cache' = c.cache
           /\ last' = CallRecord("get_mockHubbleImage", StarArgs(f), TRUE, StarKeys, c, c.r.ret)
           /\ run' = NextRun(<<this_setup_id, StarKeys>>, f, c, c.r.ret)
           /\ \E inplace \in BOOLEAN :
                 \E t \in {StarCallTables(c.called, inplace)} :
                    gas_snapdict' = t["gas"] /\ star_snapdict' = t["star"]
    /\ ncalls' = ncalls + 1
    /\ UNCHANGED <<masked, mask, theta, phi, psi, params, shown>>

----------------------------------------------------------------------------
(* set_ImageParams of GasStudio and of StarStudio *)

\* an attribute render sets holds <<value>>; <<>> when it has not been set
Unset == <<>>

\* default_kwargs of GasStudio.set_ImageParams
GasDefaults == [use_colorbar |-> FALSE, cbar_label |-> "", cbar_logspace |-> TRUE]

\* default_kwargs of StarStudio.set_ImageParams; maxden in units of 1/1000
StarDefaults == [maxden |-> 10, dynrange |-> 100, color_scheme_nasa |-> TRUE]

\* the attributes after construction: the defaults of both classes, and the
\* attributes render sets not yet set
InitParams ==
    [use_colorbar |-> GasDefaults.use_colorbar, cbar_label |-> GasDefaults.cbar_label,
     cbar_logspace |-> GasDefaults.cbar_logspace,
     maxden |-> StarDefaults.maxden, dynrange |-> StarDefaults.dynrange,
     color_scheme_nasa |-> StarDefaults.color_scheme_nasa,
     cmap |-> Unset, cbar_min |-> Unset, cbar_max |-> Unset]

NoShown == [op |-> "none", studio |-> "", use_defaults |-> FALSE, kwargs |-> <<>>,
            before |-> InitParams, bounds |-> <<>>, outcome |-> "none", image |-> <<>>,
            at |-> 0]

\* the loops of set_ImageParams: every keyword that is a key of default_kwargs
\* is popped from it and set; with use_defaults the keys that remain are set
\* to their defaults.  (The keywords then go to Studio.set_ImageParams, which
\* sets the parameters of Studio; these are none of the attributes here.)
SetImageParams(default_kwargs, use_defaults, kwargs) ==
    LET passed == DOMAIN kwargs \cap DOMAIN default_kwargs
        remaining == DOMAIN default_kwargs \ passed
    IN  [p \in DOMAIN params |->
            IF p \in passed THEN kwargs[p]
            ELSE IF use_defaults /\ p \in remaining THEN default_kwargs[p]
            ELSE params[p]]

\* the keyword dictionaries that pass some of the parameters of a record of
\* `settings`, each a record of values for all of them
Kwargs(settings, keys) ==
    {[n \in names |-> full[n]] : full \in settings, names \in SUBSET keys}

GasStudio_set_ImageParams(use_defaults, kwargs) ==
    /\ ncalls < MaxCalls
    /\ params' = SetImageParams(GasDefaults, use_defaults, kwargs)
    /\ shown' = [NoShown EXCEPT !.op = "set_ImageParams", !.studio = "GasStudio",
                                !.use_defaults = use_defaults, !.kwargs = kwargs,
                                !.before = params, !.at = ncalls + 1]
    /\ ncalls' = ncalls + 1
    /\ UNCHANGED <<gas_snapdict, star_snapdict, masked, mask, theta, phi, psi,
                   cache, last, run>>

StarStudio_set_ImageParams(use_defaults, kwargs) ==
    /\ ncalls < MaxCalls
    /\ params' = SetImageParams(StarDefaults, use_defaults, kwargs)
    /\ shown' = [NoShown EXCEPT !.op = "set_ImageParams", !.studio = "StarStudio",
                                !.use_defaults = use_defaults, !.kwargs = kwargs,
                                !.before = params, !.at = ncalls + 1]
    /\ ncalls' = ncalls + 1
    /\ UNCHANGED <<gas_snapdict, star_snapdict, masked, mask, theta, phi, psi,
                   cache, last, run>>

----------------------------------------------------------------------------
(* GasStudio.render and GasStudio.__produceImage *)

\* the top of the 0 -> 1 band an image is renormalized into, in band units
Band == 4

\* an optional bound: <<>> for None, <<v>> for the value v
NoBound == <<>>

\* Studio.renormalizeTransposeImage(image, min, max, name): the image in the
\* closed band, values outside the bounds clamped, rows and columns swapped
renormalizeTransposeImage(image, min, max) ==
    [px \in Pixels |->
        LET v == image[<<px[2], px[1]>>]
        IN  IF v <= min THEN 0
            ELSE IF v >= max THEN Band
            ELSE ((v - min) * Band) \div (max - min)]

\* mcm.produce_cmap_hsv_image(image_Q, image_W, cmap): the hue of a pixel is
\* taken from image_Q, its brightness from image_W unless that is None
produce_cmap_hsv_image(image_Q, image_W, cmap) ==
    [hue |-> image_Q, brightness |-> image_W, cmap |-> cmap]

\* mutant: the weight bounds are looked at first
ComposeMode_WeightFirst(b) ==
    IF b.min_weight # NoBound /\ b.max_weight # NoBound
    THEN "weight"
    ELSE IF b.min_quantity # NoBound /\ b.max_quantity # NoBound
    THEN "quantity"
    ELSE "none"

\* the if / elif chain of __produceImage: `is not None` of each bound
ComposeMode(b) ==
    IF /\ b.min_weight # NoBound /\ b.max_weight # NoBound
       /\ b.min_quantity # NoBound /\ b.max_quantity # NoBound
    THEN "both"
    ELSE IF b.min_weight # NoBound /\ b.max_weight # NoBound
    THEN "weight"
    ELSE IF b.min_quantity # NoBound /\ b.max_quantity # NoBound
    THEN "quantity"
    ELSE "none"

\* __produceImage after the maps are asked for: `loaded` is what the
\* weightAvgAlongLOS call did.  self.cmap is set before the call.
produceImage(b, cmap, loaded) ==
    IF loaded.outcome # "ok"
    THEN [outcome |-> loaded.outcome, image |-> <<>>, cbar_min |-> params.cbar_min,
          cbar_max |-> params.cbar_max]
    ELSE CASE ComposeMode(b) = "both" ->
                [outcome |-> "ok",
                 image |-> produce_cmap_hsv_image(
                     renormalizeTransposeImage(loaded.ret[2], b.min_quantity[1], b.max_quantity[1]),
                     renormalizeTransposeImage(loaded.ret[1], b.min_weight[1], b.max_weight[1]),
                     cmap),
                 cbar_min |-> b.min_quantity, cbar_max |-> b.max_quantity]
           [] ComposeMode(b) = "weight" ->
                [outcome |-> "ok",
                 image |-> produce_cmap_hsv_image(
                     renormalizeTransposeImage(loaded.ret[1], b.min_weight[1], b.max_weight[1]),
                     <<>>, cmap),
                 cbar_min |-> b.min_weight, cbar_max |-> b.max_weight]
           [] ComposeMode(b) = "quantity" ->
                [outcome |-> "ok",
                 image |-> produce_cmap_hsv_image(
                     renormalizeTransposeImage(loaded.ret[2], b.min_quantity[1], b.max_quantity[1]),
                     <<>>, cmap),
                 cbar_min |-> b.min_quantity, cbar_max |-> b.max_quantity]
           [] OTHER ->
                [outcome |-> "ValueError", image |-> <<>>, cbar_min |-> params.cbar_min,
                 cbar_max |-> params.cbar_max]

\* render(ax, **kwargs): final_image = self.__produceImage(**kwargs); the
\* plotting and saving that follow change none of the state here.  The two
\* adjustment functions are left at their default, None.
render(a, isfile, b, cmap) ==
    /\ weightAvgAlongLOS_call(a, isfile)
    /\ \E r \in {produceImage(b, cmap, last')} :
          /\ params' = [params EXCEPT !.cmap = <<cmap>>, !.cbar_min = r.cbar_min,
                                      !.cbar_max = r.cbar_max]
          /\ shown' = [NoShown EXCEPT !.op = "render", !.studio = "GasStudio",
                                      !.before = params, !.bounds = b,
                                      !.outcome = r.outcome, !.image = r.image,
                                      !.at = ncalls + 1]

----------------------------------------------------------------------------
(* Inputs *)

PolicyFlags == [use_metadata : BOOLEAN, save_meta : BOOLEAN, assert_cached : BOOLEAN]

\* arrays a caller passes explicitly, one entry per particle of the table
ExplicitWeights == [i \in 1..NPart |-> Unit * 5]
ExplicitQuantities == [i \in 1..NPart |-> 1]

\* a weight/quantity selection: the two names and the two optional arrays
Selection(weights, weight_name, quantities, quantity_name) ==
    [weights |-> weights, weight_name |-> weight_name,
     quantities |-> quantities, quantity_name |-> quantity_name]

\* every selection over the names and arrays of the model
AllSelections ==
    [weights : {None, Array(ExplicitWeights)},
     weight_name : {"Masses", "Volume", "Ones", "Temperature"},
     quantities : {None, Array(ExplicitQuantities)},
     quantity_name : {"Temperature", "Ones"}]

\* the calls of weightAvgAlongLOS with these selections, species and flags
CallArgs(selections, species, flags) ==
    {[weights |-> sel.weights, weight_name |-> sel.weight_name,
      quantities |-> sel.quantities, quantity_name |-> sel.quantity_name,
      snapdict_name |-> sp, use_metadata |-> f.use_metadata,
      save_meta |-> f.save_meta, assert_cached |-> f.assert_cached] :
        sel \in selections, sp \in species, f \in flags}

NoCall == [op |-> "none", args |-> StarArgs([use_metadata |-> FALSE, save_meta |-> FALSE,
                                             assert_cached |-> FALSE]),
           isfile |-> TRUE, group |-> <<>>, keys |-> <<>>, outcome |-> "none",
           errarg |-> "", hit |-> FALSE, called |-> FALSE, log |-> <<>>,
           resolved |-> NoResolved, native |-> NoNative, nret |-> 0, ret |-> <<>>,
           stored |-> {}]

\* a studio right after construction, its tables loaded
InitStudio(gas, star, m, th, ph, ps) ==
    /\ gas_snapdict = gas
    /\ star_snapdict = star
    /\ masked = m
    /\ mask = MaskArray
    /\ theta = th /\ phi = ph /\ psi = ps
    /\ cache = EmptyDict
    /\ last = NoCall
    /\ run = NoRun
    /\ ncalls = 0
    /\ params = InitParams
    /\ shown = NoShown

----------------------------------------------------------------------------
(* The cache specification: every cache policy, every species selector *)

Init ==
    \E gasH \in BOOLEAN :
        InitStudio(GasTable(GasCoordinates, gasH, FALSE), StarTable(StarCoordinates, FALSE),
                   {}, 0, 0, 0)

\* mass-weighted temperature, the mass map alone (quantity 'Ones' with the
\* quantity array passed), the same with the weights passed, and
\* volume-weighted temperature
Args ==
    CallArgs({Selection(None, "Masses", None, "Temperature"),
              Selection(None, "Masses", Array(ExplicitQuantities), "Ones"),
              Selection(Array(ExplicitWeights), "Masses", Array(ExplicitQuantities), "Ones"),
              Selection(None, "Volume", None, "Temperature")},
             {"gas", "star", "dark"}, PolicyFlags)

Next ==
    \/ \E a \in Args, isfile \in BOOLEAN : weightAvgAlongLOS(a, isfile)
    \/ \E f \in PolicyFlags : get_mockHubbleImage(f)

Spec == Init /\ [][Next]_vars

----------------------------------------------------------------------------
(* The resolution specification: every selection, against tables with and  *)
(* without kernel radii, a user-set 'Volume' field and a masked gas view;   *)
(* the cache is neither read nor written.                                   *)

NoCachePolicy == [use_metadata |-> FALSE, save_meta |-> FALSE, assert_cached |-> FALSE]

InitResolve ==
    \E gasH \in BOOLEAN, gasV \in BOOLEAN, starH \in BOOLEAN, m \in {{}, {"gas"}} :
        InitStudio(GasTable(GasCoordinates, gasH, gasV), StarTable(StarCoordinates, starH),
                   m, 0, 0, 0)

ArgsResolve == CallArgs(AllSelections, {"gas", "star"}, {NoCachePolicy})

NextResolve == \E a \in ArgsResolve : weightAvgAlongLOS(a, TRUE)

SpecResolve == InitResolve /\ [][NextResolve]_vars

----------------------------------------------------------------------------
(* The geometry specification: every rotation by quarter turns, tables with *)
(* and without kernel radii, with and without a masked gas view.            *)

InitGeom ==
    \E th \in Angles, ph \in Angles, ps \in Angles,
       gasH \in BOOLEAN, starH \in BOOLEAN, m \in {{}, {"gas"}} :
        InitStudio(GasTable(GasCoordinates, gasH, FALSE), StarTable(StarCoordinates, starH),
                   m, th, ph, ps)

\* the defaults of the cache policy: use_metadata=True, save_meta=True
DefaultPolicy == [use_metadata |-> TRUE, save_meta |-> TRUE, assert_cached |-> FALSE]

\* massWeightAlongLOS(quantities, 'Ones') and volumeWeightAlongLOS(None, 'Masses')
ArgsGeom ==
    CallArgs({Selection(None, "Masses", Array(ExplicitQuantities), "Ones"),
              Selection(None, "Volume", None, "Masses")},
             {"gas", "star"}, {NoCachePolicy, DefaultPolicy})

NextGeom ==
    \/ \E a \in ArgsGeom : weightAvgAlongLOS(a, TRUE)
    \/ \E f \in {NoCachePolicy, DefaultPolicy} : get_mockHubbleImage(f)

SpecGeom == InitGeom /\ [][NextGeom]_vars

----------------------------------------------------------------------------
(* The image-parameter specification: every sequence of set_ImageParams     *)
(* calls of the two studios.                                                 *)

\* values a caller passes for the parameters of GasStudio and of StarStudio
GasValues == [use_colorbar : BOOLEAN, cbar_label : {"", "Temperature"},
              cbar_logspace : BOOLEAN]
StarValues == [maxden : {10, 100}, dynrange : {100, 10}, color_scheme_nasa : BOOLEAN]

InitParamsSpec ==
    InitStudio(GasTable(GasCoordinates, TRUE, FALSE), StarTable(StarCoordinates, TRUE),
               {}, 0, 0, 0)

NextParams ==
    \/ \E use_defaults \in BOOLEAN, kwargs \in Kwargs(GasValues, DOMAIN GasDefaults) :
          GasStudio_set_ImageParams(use_defaults, kwargs)
    \/ \E use_defaults \in BOOLEAN, kwargs \in Kwargs(StarValues, DOMAIN StarDefaults) :
          StarStudio_set_ImageParams(use_defaults, kwargs)

SpecParams == InitParamsSpec /\ [][NextParams]_vars

----------------------------------------------------------------------------
(* The render specification: every choice of bounds, with and without the   *)
(* cache and the native artifact.                                            *)

\* min_weight, max_weight, min_quantity, max_quantity: each None or a value
BoundsChoices ==
    [min_weight : {NoBound, <<0>>}, max_weight : {NoBound, <<400>>},
     min_quantity : {NoBound, <<0>>}, max_quantity : {NoBound, <<20>>}]

ArgsRender ==
    CallArgs({Selection(None, "Masses", None, "Temperature")},
             {"gas"}, {NoCachePolicy, DefaultPolicy})

InitRender ==
    \E gasH \in BOOLEAN :
        InitStudio(GasTable(GasCoordinates, gasH, FALSE), StarTable(StarCoordinates, FALSE),
                   {}, 0, 0, 0)

NextRender ==
    \E a \in ArgsRender, isfile \in BOOLEAN, b \in BoundsChoices, cmap \in {"viridis", "magma"} :
        render(a, isfile, b, cmap)

SpecRender == InitRender /\ [][NextRender]_vars

----------------------------------------------------------------------------
(* The kernel specification: one gas particle inside the frame, with table  *)
(* and estimated kernel radii, light and heavy weights.                     *)

\* positions of the single particle: at the centre of the frame, near a
\* pixel centre, between two pixel centres
KernelPositions == {<<0, 0, 0>>, <<2, -2, 2>>, <<1, -1, 0>>}

\* weights of the single particle; 2^24 + 1 is not a float32 value
KernelWeights == {<<Unit * 5>>, <<7>>, <<16777217>>}

ArgsKernel ==
    CallArgs({Selection(w, "Masses", None, q) :
                  w \in {None} \cup {Array(x) : x \in KernelWeights},
                  q \in {"Temperature", "Ones"}},
             {"gas"}, {NoCachePolicy, DefaultPolicy})

InitKernel ==
    \E p \in KernelPositions, gasH \in BOOLEAN :
        InitStudio(GasTable(<<p>>, gasH, FALSE), StarTable(StarCoordinates, FALSE),
                   {}, 0, 0, 0)

NextKernel == \E a \in ArgsKernel, isfile \in BOOLEAN : weightAvgAlongLOS(a, isfile)

SpecKernel == InitKernel /\ [][NextKernel]_vars

----------------------------------------------------------------------------
(* Claims about the cache, checked under Spec *)

IsCall == last.op # "none"
IsGasCall == last.op = "weightAvgAlongLOS"
Logged(step) == \E k \in 1..Len(last.log) : last.log[k] = step

\* a cache hit runs no step of the wrapped computation
HitRunsNothing ==
    last.hit => /\ ~Logged("cullFrameIndices") /\ ~Logged("rotateEuler")
                /\ ~Logged("getImageGrid") /\ ~last.called

\* C1 as stated: over a run of calls that share one fingerprint and are made
\* with use_metadata, the projection kernel runs at most once, every
\* successful call returns the maps the first one returned, and a cache hit
\* runs neither cullFrameIndices, rotateEuler nor getImageGrid.
C1_AsStated ==
    /\ run.kdone <= 1
    /\ (IsCall /\ last.args.use_metadata /\ last.outcome = "ok") => last.ret = run.first
    /\ HitRunsNothing

\* C1 amended: the same for a run whose calls are all made with save_meta as
\* well as use_metadata.
C1_ComputedOnce ==
    /\ run.allsave =>
        /\ run.kdone <= 1
        /\ (IsCall /\ last.args.use_metadata /\ last.outcome = "ok") => last.ret = run.first
    /\ HitRunsNothing

\* C1 witness: the second call of a run hits the entry the first one stored
C1_Witness ==
    /\ IsGasCall /\ run.n = 2 /\ run.allsave /\ run.kdone = 1
    /\ last.hit /\ last.ret = run.first

\* C2: a weightAvgAlongLOS call with a valid species that is served from the
\* cache gets the maps its own computation would have produced.
C2_FingerprintSound ==
    (IsGasCall /\ last.hit /\ last.args.snapdict_name \in {"gas", "star"}) =>
        \E c \in {inner_weight_along_los(last.args, TRUE)} :
            /\ c.outcome = "ok"
            /\ last.ret = FinalReturn(last.args.quantity_name, c.ret)

\* C3: a call made with assert_cached for a fingerprint whose fields are not
\* all stored ends in an error, starts no step of the wrapped computation and
\* leaves the cache unchanged.
C3_AssertMiss ==
    [][(/\ ncalls' = ncalls + 1
        /\ last'.args.assert_cached
        /\ ~AllStored(last'.group, last'.keys))
       => (/\ last'.outcome = "AssertionError"
           /\ last'.log = <<>>
           /\ ~last'.called
           /\ ~last'.native.called
           /\ last'.ret = <<>>
           /\ cache' = cache)]_vars

\* C3 witness: a call with assert_cached has failed on a miss
C3_Witness ==
    /\ IsCall /\ last.args.assert_cached /\ ~last.hit /\ last.outcome = "AssertionError"

\* the fingerprints of the model: the key lists a call can declare
Fingerprints ==
    {CacheKeys(w, q) : w \in DOMAIN Lower, q \in DOMAIN Title} \union {StarKeys}

NoneStored(group, keys) == \A k \in 1..Len(keys) : <<group, keys[k]>> \notin DOMAIN cache

\* a cache entry is created only by a call whose computation ran and
\* returned, and a failing call stores nothing
StoredOnlyOnSuccess ==
    /\ cache # EmptyDict => IsCall
    /\ IsCall => /\ last.stored # {} => (last.outcome = "ok" /\ last.called /\ ~last.hit)
                 /\ last.outcome # "ok" => last.stored = {}

\* C4 as stated: of every fingerprint either all fields are stored or none
\* is; an entry is created only by a successful computation and a failing
\* call stores nothing.
C4_AsStated ==
    /\ \A keys \in Fingerprints :
          AllStored(this_setup_id, keys) \/ NoneStored(this_setup_id, keys)
    /\ StoredOnlyOnSuccess

\* C4 amended: every call stores all the fields it declares or none of them,
\* only after a successful computation; a fingerprint whose last declared
\* field is stored has all its fields stored (its weight-map field alone may
\* be present, stored by a call with the same weight name and quantity 'Ones').
C4_WrittenWhole ==
    /\ \A keys \in Fingerprints :
          <<this_setup_id, keys[Len(keys)]>> \in DOMAIN cache => AllStored(this_setup_id, keys)
    /\ IsCall => (last.stored = {} \/ last.stored = {last.keys[k] : k \in 1..Len(last.keys)})
    /\ IsCall => \A k \in last.stored : <<last.group, k>> \in DOMAIN cache
    /\ StoredOnlyOnSuccess

\* C4 witness: a failing call after a call that stored its fields
C4_Witness ==
    /\ IsCall /\ last.outcome \notin {"ok", "AssertionError"} /\ last.called
    /\ cache # EmptyDict

\* C5: a weightAvgAlongLOS call with a species selector other than 'gas' and
\* 'star' ends in an error and returns no map.
C5_UnknownSpeciesRejected ==
    (IsGasCall /\ last.args.snapdict_name \notin {"gas", "star"}) =>
        (last.outcome # "ok" /\ last.ret = <<>>)

\* C8: a successful weightAvgAlongLOS call returns two maps; with quantity
\* 'Ones' they are the same map and one field is declared and stored,
\* otherwise two are; a computation returns as many maps as fields are declared.
C8_TwoMaps ==
    (IsGasCall /\ last.outcome = "ok") =>
        /\ Len(last.ret) = 2
        /\ Len(last.keys) = (IF last.args.quantity_name = "Ones" THEN 1 ELSE 2)
        /\ last.args.quantity_name = "Ones" => last.ret[1] = last.ret[2]
        /\ last.called => last.nret = Len(last.keys)
        /\ (last.called /\ last.args.save_meta) =>
              /\ Cardinality(last.stored) = Len(last.keys)
              /\ \A k \in 1..Len(last.keys) :
                    /\ <<last.group, last.keys[k]>> \in DOMAIN cache
                    /\ cache[<<last.group, last.keys[k]>>] = last.ret[k]
        /\ last.hit => \A k \in 1..Len(last.keys) :
                          last.ret[k] = cache[<<last.group, last.keys[k]>>]

\* C8 witness: a call with quantity 'Ones' served from the cache
C8_Witness ==
    /\ IsGasCall /\ last.outcome = "ok" /\ last.hit /\ last.args.quantity_name = "Ones"
    /\ last.ret[1] = last.ret[2]

----------------------------------------------------------------------------
(* Claims about the resolution of weights and quantities, under SpecResolve *)

\* the snapdict the last weightAvgAlongLOS call read
LastSnapdict == SelectSnapdict(last.args.snapdict_name).snapdict

\* the last call failed with a missing-field error naming `name`
MissingField(name) == last.outcome = "KeyError" /\ last.errarg = name

\* the quantity clause of C6: by table lookup only
QuantityResolved ==
    IF last.args.quantities.given
    THEN last.resolved.done /\ last.resolved.quantities = last.args.quantities.data
    ELSE IF last.args.quantity_name \in DOMAIN LastSnapdict
    THEN /\ last.resolved.done
         /\ last.resolved.quantities = LastSnapdict[last.args.quantity_name]
    ELSE MissingField(last.args.quantity_name)

ClaimedSynthetic(weight_name, Hsml) ==
    [i \in 1..Len(LastSnapdict["Coordinates"]) |->
        IF weight_name = "Ones" THEN Unit
        ELSE (4 * Pi[1] * Unit * Hsml[i] * Hsml[i] * Hsml[i]) \div (3 * 32 * Pi[2])]

\* C7: a call with the weights omitted and a synthetic weight name that is no
\* field of the table succeeds (its quantity given or in the table) with the
\* synthetic weights.
C7_SyntheticWeights ==
    (/\ IsGasCall /\ last.called /\ ~last.args.weights.given
     /\ last.args.weight_name \in {"Ones", "Volume"}
     /\ last.args.weight_name \notin DOMAIN LastSnapdict
     /\ IF last.args.quantities.given
        THEN Len(last.args.quantities.data) = Len(LastSnapdict["Coordinates"])
        ELSE last.args.quantity_name \in DOMAIN LastSnapdict)
    => /\ last.outcome = "ok"
       /\ last.resolved.weights =
              ClaimedSynthetic(last.args.weight_name, last.resolved.Hsml)

----------------------------------------------------------------------------
(* Claims about culling and rotation, under SpecGeom *)

SameLength(arrays, n) == \A k \in 1..Len(arrays) : Len(arrays[k]) = n

\* C9: the arrays handed to the native routine are the fields of one species
\* filtered by the same culling mask: they have the length of the number of
\* particles inside the frame, and (gas projection) entry k of each belongs
\* to the same particle.
C9_CoIndexed ==
    /\ (IsGasCall /\ last.native.called) =>
          \E box_mask \in {cullFrameIndices(LastSnapdict["Coordinates"])} :
             /\ last.native.n_smooth = CountTrue(box_mask)
             /\ SameLength(<<last.native.pos, last.native.weights,
                             last.native.quantities, last.native.hsml>>, CountTrue(box_mask))
             /\ last.native.weights = astype_float32(BoolIndex(last.resolved.weights, box_mask))
             /\ last.native.quantities =
                    astype_float32(BoolIndex(last.resolved.quantities, box_mask))
             /\ last.native.hsml = astype_float32(BoolIndex(last.resolved.Hsml, box_mask))
    /\ (last.op = "get_mockHubbleImage" /\ last.native.called) =>
          /\ SameLength(<<last.native.x, last.native.mstar, last.native.ages,
                          last.native.metals, last.native.h_star>>,
                        CountTrue(cullFrameIndices(star_snapdict["Coordinates"])))
          /\ SameLength(<<last.native.gx, last.native.mgas, last.native.gas_metals,
                          last.native.h_gas>>,
                        CountTrue(cullFrameIndices(gas_snapdict["Coordinates"])))

\* the positions of a table that lie inside the box after the rotation
RotatedInside(Coordinates) ==
    BoolIndex(rotateEuler(theta, phi, psi, Coordinates),
              cullFrameIndices(rotateEuler(theta, phi, psi, Coordinates)))

\* C10: the particles handed to the kernel are exactly those whose rotated
\* position lies inside the box.
C10_CullsRotated ==
    /\ (IsGasCall /\ last.native.called) =>
          last.native.pos = astype_float32_pos(RotatedInside(LastSnapdict["Coordinates"]))
    /\ (last.op = "get_mockHubbleImage" /\ last.native.called) =>
          /\ last.native.x = Column(RotatedInside(star_snapdict["Coordinates"]), 1)
          /\ last.native.gx = Column(RotatedInside(gas_snapdict["Coordinates"]), 1)

----------------------------------------------------------------------------
(* Claims about the native artifact and the masked views *)

\* C12: a getImageGrid call that finds no native artifact fails with IOError
\* naming the path of the artifact, and enters no native routine.
C12_MissingArtifact ==
    (IsGasCall /\ Logged("getImageGrid") /\ ~last.isfile) =>
        /\ last.outcome = "IOError"
        /\ last.errarg = "c_obj_path"
        /\ ~last.native.called
        /\ ~Logged("findHsmlAndProject")

\* the table a projection of species s has to read: the masked view if the
\* studio has one for s, else the unmasked table
ViewOf(s) ==
    IF s \in masked THEN [f \in DOMAIN UnmaskedSnapdict(s) |->
                             BoolIndex(UnmaskedSnapdict(s)[f], mask)]
    ELSE UnmaskedSnapdict(s)

\* the kernel radii a projection of species s has to use
RadiiOf(s) ==
    IF "SmoothingLength" \in DOMAIN ViewOf(s) THEN ViewOf(s)["SmoothingLength"]
    ELSE IF s \in masked THEN BoolIndex(get_HSML(s), mask)
    ELSE get_HSML(s)

\* field f of the view of s, culled by the frame and cast
CulledField(s, f) ==
    astype_float32(BoolIndex(ViewOf(s)[f], cullFrameIndices(ViewOf(s)["Coordinates"])))

\* C13: a projection reads the masked view of a species if there is one, and
\* filters the radii of the resolver with the same mask; without a masked
\* view it reads the unmasked table and uses the resolver's radii as they are.
C13_MaskedViewPreferred ==
    /\ (IsGasCall /\ last.resolved.done) =>
          /\ last.resolved.Hsml = RadiiOf(last.args.snapdict_name)
          /\ Len(last.resolved.Hsml) = Len(ViewOf(last.args.snapdict_name)["Coordinates"])
          /\ ~last.args.weights.given /\ last.args.weight_name = "Masses" =>
                last.resolved.weights = ViewOf(last.args.snapdict_name)["Masses"]
          /\ ~last.args.quantities.given =>
                last.resolved.quantities =
                    ViewOf(last.args.snapdict_name)[last.args.quantity_name]
    /\ (last.op = "get_mockHubbleImage" /\ last.native.called) =>
          /\ last.native.mstar = CulledField("star", "Masses")
          /\ last.native.ages = CulledField("star", "AgeGyr")
          /\ last.native.mgas = CulledField("gas", "Masses")

----------------------------------------------------------------------------
(* Claims about the order of the steps of a projection *)

NotResolver(step) == step # "get_HSML"

\* the steps of the last call other than the resolution of kernel radii
Steps == SelectSeq(last.log, NotResolver)

\* C16: a projection that reaches the native routine has culled, then cast,
\* then rotated each population, in this order, before it calls the routine.
C16_CullCastRotateCall ==
    /\ (IsGasCall /\ Logged("getImageGrid")) =>
          SubSeq(Steps, 1, 4) = <<"cullFrameIndices", "astype", "rotateEuler", "getImageGrid">>
    /\ (last.op = "get_mockHubbleImage" /\ Logged("raytrace_ugr_attenuation")) =>
          SubSeq(Steps, 1, 7) = <<"cullFrameIndices", "astype", "rotateEuler",
                                  "cullFrameIndices", "astype", "rotateEuler",
                                  "raytrace_ugr_attenuation">>

----------------------------------------------------------------------------
(* Claims about the particle tables *)

\* C18: no projection call, whether it computes, fails or is served from the
\* cache, changes a field of a particle table, the mask or the masked views.
C18_TablesUntouched ==
    [][/\ gas_snapdict' = gas_snapdict
       /\ star_snapdict' = star_snapdict
       /\ mask' = mask
       /\ masked' = masked]_vars

\* C18 witness: under a rotation, a projection that rotated particles has
\* been followed by a call served from the cache
C18_Witness ==
    /\ theta # 0 /\ ncalls = 2 /\ IsCall /\ last.hit
    /\ gas_snapdict["Coordinates"] = GasCoordinates

----------------------------------------------------------------------------
(* Claims about the image parameters, under SpecParams *)

\* the defaults the docstrings of set_ImageParams document
DocumentedDefaults ==
    [GasStudio |-> [use_colorbar |-> FALSE, cbar_label |-> "", cbar_logspace |-> FALSE],
     StarStudio |-> [maxden |-> 10, dynrange |-> 100, color_scheme_nasa |-> TRUE]]

\* C14: after a set_ImageParams call, a parameter that was passed has the
\* passed value; one that was not passed has its documented default if
\* use_defaults was set and its former value otherwise; the parameters of
\* the other studio and those set by render keep their values.
C14_MergeOverDefaults ==
    shown.op = "set_ImageParams" =>
        \A p \in DOMAIN params :
            params[p] =
                IF p \in DOMAIN DocumentedDefaults[shown.studio] /\ p \in DOMAIN shown.kwargs
                THEN shown.kwargs[p]
                ELSE IF p \in DOMAIN DocumentedDefaults[shown.studio] /\ shown.use_defaults
                THEN DocumentedDefaults[shown.studio][p]
                ELSE shown.before[p]

----------------------------------------------------------------------------
(* Claims about the compositor, under SpecRender *)

\* the last call was a render call
IsRender == shown.op = "render" /\ shown.at = ncalls

WeightBounds == shown.bounds.min_weight # <<>> /\ shown.bounds.max_weight # <<>>
QuantityBounds == shown.bounds.min_quantity # <<>> /\ shown.bounds.max_quantity # <<>>

\* a map renormalized between two bounds, rows and columns swapped
InBand(map, lo, hi) == renormalizeTransposeImage(map, lo[1], hi[1])

\* C11: once the maps are loaded, both pairs of bounds give an image with the
\* hue of the quantity map and the brightness of the weight map, the weight
\* bounds alone a hue image of the weight map, the quantity bounds alone a
\* hue image of the quantity map, each with the colorbar bounds of the field
\* that drives the hue; no complete pair gives ValueError and no image.
C11_ComposeModes ==
    (IsRender /\ last.outcome = "ok") =>
        IF WeightBounds /\ QuantityBounds
        THEN /\ shown.outcome = "ok"
             /\ shown.image.hue =
                    InBand(last.ret[2], shown.bounds.min_quantity, shown.bounds.max_quantity)
             /\ shown.image.brightness =
                    InBand(last.ret[1], shown.bounds.min_weight, shown.bounds.max_weight)
             /\ params.cbar_min = shown.bounds.min_quantity
             /\ params.cbar_max = shown.bounds.max_quantity
        ELSE IF WeightBounds
        THEN /\ shown.outcome = "ok"
             /\ shown.image.hue =
                    InBand(last.ret[1], shown.bounds.min_weight, shown.bounds.max_weight)
             /\ shown.image.brightness = <<>>
             /\ params.cbar_min = shown.bounds.min_weight
             /\ params.cbar_max = shown.bounds.max_weight
        ELSE IF QuantityBounds
        THEN /\ shown.outcome = "ok"
             /\ shown.image.hue =
                    InBand(last.ret[2], shown.bounds.min_quantity, shown.bounds.max_quantity)
             /\ shown.image.brightness = <<>>
             /\ params.cbar_min = shown.bounds.min_quantity
             /\ params.cbar_max = shown.bounds.max_quantity
        ELSE /\ shown.outcome = "ValueError"
             /\ shown.image = <<>>
             /\ params.cbar_min = shown.before.cbar_min
             /\ params.cbar_max = shown.before.cbar_max

\* C11 witness: an image composed from both maps, with distinct channels
C11_Witness ==
    /\ IsRender /\ shown.outcome = "ok" /\ WeightBounds /\ QuantityBounds
    /\ shown.image.hue # shown.image.brightness
    /\ params.cbar_max = shown.bounds.max_quantity

\* C17: a render call without a complete pair of bounds fails with the
\* configuration error before the projection is computed: the wrapped
\* computation is not started, the kernel is not invoked and no cache field
\* is stored.
C17_ConfigurationErrorFirst ==
    (IsRender /\ ~WeightBounds /\ ~QuantityBounds) =>
        /\ shown.outcome = "ValueError"
        /\ ~last.called
        /\ ~last.native.called
        /\ last.stored = {}

----------------------------------------------------------------------------
(* Claims about the kernel, under SpecKernel *)

\* the last call ran the kernel on a single particle inside the frame whose
\* kernel radius does not exceed the frame half-width
SingleParticleProjected ==
    /\ IsGasCall /\ last.outcome = "ok" /\ last.native.called
    /\ Len(gas_snapdict["Coordinates"]) = 1
    /\ last.native.n_smooth = 1
    /\ InBox(last.native.pos[1])
    /\ last.native.hsml[1] <= Hmax

\* the weight of the single particle, as the caller resolved it
ParticleWeight == last.resolved.weights[1]

\* the rounding a value of size w may suffer: one unit for each pixel term,
\* and the spacing of single precision at w
Tolerance(w) == Cardinality(Pixels) + Abs(w) \div 16777216

====
